---- MODULE Spec2Model ----
(***************************************************************************)
(* MDSA orchestration framework: the orchestrator's request workflow       *)
(* (src/mdsa/core/orchestrator.py) over its workflow state machine, the    *)
(* model registry / model manager and the dual-tier retrieval store.       *)
(***************************************************************************)
EXTENDS Integers, Sequences, FiniteSets, TLC

(***************************************************************************)
(* Bounds of the model and program constants.                              *)
(***************************************************************************)
\* number of process_request calls explored on one orchestrator instance
MaxRequests == 2
\* longest execution plan the reasoner returns
MaxTasks == 2
\* task ids a plan may use (as task_id and inside dependencies)
TaskIds == {1, 2}
\* default confidence threshold, in hundredths (0.80)
ConfThreshold == 80
\* confidences classify may return, in hundredths: below, at and above
Confidences == {ConfThreshold - 1, ConfThreshold, ConfThreshold + 1}
\* "no confidence yet"
NoConf == 0 - 1
\* the clock values a call may start at, in milliseconds
MaxTime == 2
\* process_request calls in flight at once on one orchestrator
NumRequests == 2
Requests == 1..NumRequests
\* "no call yet"
NoCall == [from |-> "none", to |-> "none", force |-> FALSE, ok |-> FALSE,
           forced_at |-> {}]
\* a process_request call that has not started
NewRequest == [pc |-> "start", entered |-> <<>>, status |-> "none",
               state_history |-> <<>>]
NoDomainCall == [name |-> "none", error |-> "none", before |-> <<>>]

VARIABLES
    enable_reasoning,   \* constructor flag of the orchestrator
    state_machine,      \* the orchestrator's StateMachine: [state, history]
    stats,              \* self.stats, the five counters
    pc,                 \* position of the in-flight process_request call
    path,               \* "none" | "simple" | "reasoning"
    n_requests,         \* calls started so far (bounded by MaxRequests)
    conf,               \* confidence classify returned for the query (line 210)
    plan,               \* reasoning_result.execution_plan
    idx,                \* number of plan tasks the task loop has taken
    task_results,       \* the dict task_results, in insertion order
    result,             \* what the last call gave its caller
    stats0,             \* observation: stats when the call started
    executed,           \* observation: plan positions executed, in order
    raised,             \* observation: state machine when an exception was caught
    time_ms,            \* the clock, in milliseconds (time.time() * 1000)
    correlation_id,     \* correlation id of the in-flight call (line 185)
    published,          \* observation: messages published since the call started
    req,                \* concurrent process_request calls: [pc, entered, status]
    sm_call,            \* the last direct call of the state machine and its outcome
    domains,            \* router.domains: domain id -> [description, uses]
    domain_call,        \* the last register_domain call: [name, error, before]
    reasoner_calls,     \* observation: analyze_and_plan calls made by the call
    complexity,         \* observation: what the complexity analyzer said
    issued,             \* observation: the correlation ids issued, in order
    resets,             \* observation: reset_stats calls so far
    max_models,         \* ModelRegistry(max_models)
    registry,           \* model_id -> registry entry, for the loaded models
    clock,              \* the time the registry stamps last_used with
    reg_error,          \* what the last direct registry call raised
    evicted,            \* observation: the id the last register evicted
    access_order,       \* observation: loaded ids, least recently accessed first
    lru_before,         \* observation: head of access_order before the last register
    load_lock,          \* ModelManager: model_id -> caller holding its load lock
    caller,             \* get_or_load callers: [pc, model_id, got, error]
    loads,              \* observation: model_id -> physical loads performed
    local_rags,         \* DualRAG: domain_id -> its local corpus, oldest first
    global_rag,         \* DualRAG: the global corpus, oldest first
    retrieved,          \* what the last retrieve returned
    rag_error,          \* what the last DualRAG call raised
    inserted_into       \* observation: doc_id -> the corpus it was inserted into

bus_vars == <<time_ms, correlation_id, published>>

obs_vars == <<reasoner_calls, complexity, issued, resets>>

orch_vars == <<enable_reasoning, state_machine, stats, pc, path, n_requests,
               conf, plan, idx, task_results, result, stats0, executed, raised,
               bus_vars, obs_vars>>

\* state of the specifications that drive one component on its own
other_vars == <<req, sm_call, domains, domain_call>>

registry_vars == <<max_models, registry, clock, reg_error, evicted, access_order,
                   lru_before>>

manager_vars == <<load_lock, caller, loads>>

rag_vars == <<local_rags, global_rag, retrieved, rag_error, inserted_into>>

(***************************************************************************)
(* Workflow state machine (mdsa.core.state_machine).                       *)
(***************************************************************************)
HappyPath == <<"INIT", "CLASSIFY", "VALIDATE_PRE", "LOAD_SLM", "EXECUTE",
               "VALIDATE_POST", "LOG", "RETURN">>

TerminalStates == {"RETURN", "ERROR"}

WorkflowState == {HappyPath[i] : i \in 1..Len(HappyPath)} \cup {"ERROR"}

IndexOf(s) == CHOOSE i \in 1..Len(HappyPath) : HappyPath[i] = s

is_terminal_state(sm) == sm.state \in TerminalStates

\* a rule that lets a non-forced transition move to any later state
can_transition_forward(sm, to) ==
    /\ ~is_terminal_state(sm)
    /\ \/ to = "ERROR"
       \/ /\ to # "ERROR"
          /\ IndexOf(to) > IndexOf(sm.state)

\* a non-forced transition is legal to the immediate successor, or to ERROR
\* from a non-terminal state
can_transition(sm, to) ==
    /\ ~is_terminal_state(sm)
    /\ \/ to = "ERROR"
       \/ /\ to # "ERROR"
          /\ IndexOf(to) = IndexOf(sm.state) + 1

\* transition(to, force) raises instead of moving
transition_raises(sm, to, force) == ~force /\ ~can_transition(sm, to)

\* the state machine after a transition that did not raise
transition(sm, to) == [state |-> to, history |-> Append(sm.history, to)]

\* reset(): back to INIT with an empty history of visited states
reset == [state |-> "INIT", history |-> <<>>]

\* longest history explored when the state machine is driven directly
MaxHistory == 8
\* transitions that only force=True lets through, per run between resets
MaxForced == 1

sm_unchanged == <<enable_reasoning, stats, pc, path, n_requests, conf, plan, idx,
                  task_results, result, stats0, executed, raised, bus_vars,
                  obs_vars, req, domains, domain_call, registry_vars, manager_vars,
                  rag_vars>>

\* state_machine.transition(to, force=force) called directly
SmTransition(to, force) ==
    /\ Len(state_machine.history) < MaxHistory
    /\ (force /\ ~can_transition(state_machine, to)) =>
           Cardinality(sm_call.forced_at) < MaxForced
    /\ LET ok == ~transition_raises(state_machine, to, force) IN
       /\ state_machine' = IF ok THEN transition(state_machine, to) ELSE state_machine
       /\ sm_call' = [from |-> state_machine.state, to |-> to, force |-> force,
                      ok |-> ok,
                      forced_at |->
                          IF force /\ ~can_transition(state_machine, to)
                          THEN sm_call.forced_at \cup {Len(state_machine.history) + 1}
                          ELSE sm_call.forced_at]
    /\ UNCHANGED sm_unchanged

\* state_machine.reset() called directly
SmReset ==
    /\ state_machine # reset
    /\ state_machine' = reset
    /\ sm_call' = NoCall
    /\ UNCHANGED sm_unchanged

SmNext ==
    \/ \E to \in WorkflowState, force \in BOOLEAN : SmTransition(to, force)
    \/ SmReset

(***************************************************************************)
(* Orchestrator: results, statistics, exception handlers.                  *)
(***************************************************************************)
InitStats == [requests_total |-> 0, requests_success |-> 0, requests_failed |-> 0,
              requests_reasoning |-> 0, total_latency_ms |-> 0]

\* the value a call that has not returned (or never returned a dict) leaves
NoResult == [outcome |-> "none", status |-> "none", message |-> "none",
             keys |-> {}, state_history |-> <<>>, task_results |-> <<>>,
             task |-> 0, dep |-> 0, confidence |-> NoConf,
             correlation_id |-> 0]

NoRaise == [caught |-> FALSE, state |-> "none", history |-> <<>>]

\* a result dict: its status, message and the keys of its metadata; the
\* metadata's correlation_id, where present, is the call's correlation_id
Returned(status, message, keys) ==
    [NoResult EXCEPT !.outcome = "returned", !.status = status,
                     !.message = message, !.keys = keys,
                     !.correlation_id =
                         IF "correlation_id" \in keys THEN correlation_id ELSE 0]

\* a state-change message published without the request's correlation id
StateChangeAnonymous(state, cid) ==
    [type |-> "STATE_CHANGE", state |-> state, correlation_id |-> 0]

\* _publish_state_change(state, correlation_id), lines 344-358
StateChangeMessage(state, cid) ==
    [type |-> "STATE_CHANGE", state |-> state, correlation_id |-> cid]

\* the completion message, lines 267-274 and 509-516
ResponseMessage(cid) ==
    [type |-> "RESPONSE", state |-> "none", correlation_id |-> cid]

\* a handler that starts the history afresh when it enters ERROR
ErrorTransitionLossy(sm) ==
    IF ~is_terminal_state(sm) THEN [state |-> "ERROR", history |-> <<"ERROR">>] ELSE sm

\* lines 281-286 and 523-528: move to ERROR unless terminal, swallowing a
\* failure of that transition
ErrorTransition(sm) ==
    IF ~is_terminal_state(sm) /\ ~transition_raises(sm, "ERROR", FALSE)
    THEN transition(sm, "ERROR")
    ELSE sm

FailedStats(st) == [st EXCEPT !.requests_total = @ + 1, !.requests_failed = @ + 1]

\* except-clause of process_request, entered with the state machine sm and
\* the counters st as they were when the exception was raised
ProcessRequestExcept(sm, st) ==
    /\ state_machine' = ErrorTransition(sm)
    /\ stats' = FailedStats(st)
    /\ result' = Returned("error", "exception", {"correlation_id", "latency_ms"})
    /\ raised' = [caught |-> TRUE, state |-> sm.state, history |-> sm.history]
    /\ pc' = "idle"

\* except-clause of _process_with_reasoning
ReasoningExcept(sm, st) ==
    /\ state_machine' = ErrorTransition(sm)
    /\ stats' = FailedStats(st)
    /\ result' = [Returned("error", "exception",
                           {"correlation_id", "latency_ms", "reasoning_used",
                            "state_history"})
                  EXCEPT !.state_history = ErrorTransition(sm).history]
    /\ raised' = [caught |-> TRUE, state |-> sm.state, history |-> sm.history]
    /\ pc' = "idle"

\* the handler in charge at the current position
Except(sm, st) ==
    IF path = "reasoning" THEN ReasoningExcept(sm, st) ELSE ProcessRequestExcept(sm, st)

(***************************************************************************)
(* Orchestrator: process_request, step by step.                            *)
(***************************************************************************)
\* lines 184-190: the call starts; reset() and set_metadata() run before the
\* try block, so a failure of set_metadata leaves the call by an exception
ProcessRequest ==
    /\ pc = "idle"
    /\ n_requests < MaxRequests
    /\ n_requests' = n_requests + 1
    /\ stats0' = stats
    /\ state_machine' = reset
    /\ path' = "none"
    /\ conf' = NoConf
    /\ plan' = <<>>
    /\ idx' = 0
    /\ task_results' = <<>>
    /\ executed' = <<>>
    /\ raised' = NoRaise
    /\ \E t \in {time_ms, time_ms + 1} :
          /\ t <= MaxTime
          /\ time_ms' = t
          /\ correlation_id' = t
          /\ issued' = Append(issued, t)
    /\ published' = <<>>
    /\ reasoner_calls' = 0
    /\ complexity' = "none"
    /\ \/ /\ pc' = "complexity"
          /\ result' = NoResult
       \/ /\ pc' = "idle"
          /\ result' = [NoResult EXCEPT !.outcome = "raised"]
    /\ UNCHANGED <<enable_reasoning, stats, resets>>
    /\ UNCHANGED <<registry_vars, manager_vars, rag_vars, other_vars>>

\* a routing that sends every analysed query to the reasoner
PathAlwaysReasoning(is_complex) == "reasoning"

\* lines 202-203: the path after the analyzer's verdict
PathFor(is_complex) == IF is_complex THEN "reasoning" ELSE "simple"

\* lines 193-205: complexity analysis chooses the path; the analyzer is only
\* asked when reasoning is enabled
ComplexityCheck ==
    /\ pc = "complexity"
    /\ \/ /\ ~enable_reasoning
          /\ path' = "simple"
          /\ complexity' = "none"
          /\ pc' = "CLASSIFY"
          /\ UNCHANGED <<state_machine, stats, result, raised>>
       \/ /\ enable_reasoning
          /\ \E is_complex \in BOOLEAN :
                /\ path' = PathFor(is_complex)
                /\ complexity' = IF is_complex THEN "complex" ELSE "simple"
          /\ pc' = "CLASSIFY"
          /\ UNCHANGED <<state_machine, stats, result, raised>>
       \/ /\ enable_reasoning
          /\ path' = path
          /\ complexity' = "none"
          /\ ProcessRequestExcept(state_machine, stats)
    /\ UNCHANGED <<bus_vars, enable_reasoning, n_requests, conf, plan, idx,
                   task_results, stats0, executed, reasoner_calls, issued, resets>>
    /\ UNCHANGED <<registry_vars, manager_vars, rag_vars, other_vars>>

\* a workflow that forgets its last transition, LOG -> RETURN
NextPcNoReturn(s) ==
    CASE s = "CLASSIFY" -> IF path = "reasoning" THEN "plan" ELSE "classify"
      [] s = "EXECUTE"  -> IF path = "reasoning" THEN "tasks" ELSE "VALIDATE_POST"
      [] s = "LOG"      -> "finish"
      [] s = "RETURN"   -> "finish"
      [] OTHER          -> HappyPath[IndexOf(s) + 1]

\* where the call continues after entering workflow state s
NextPc(s) ==
    CASE s = "CLASSIFY" -> IF path = "reasoning" THEN "plan" ELSE "classify"
      [] s = "EXECUTE"  -> IF path = "reasoning" THEN "tasks" ELSE "VALIDATE_POST"
      [] s = "RETURN"   -> "finish"
      [] OTHER          -> HappyPath[IndexOf(s) + 1]

\* transition(pc) followed by _publish_state_change(pc): lines 207-208,
\* 222-244, 391-392, 427-434, 472-481
Advance ==
    /\ pc \in WorkflowState \ {"INIT", "ERROR"}
    /\ IF transition_raises(state_machine, pc, FALSE)
       THEN /\ Except(state_machine, stats)
            /\ published' = published
       ELSE \/ /\ state_machine' = transition(state_machine, pc)
               /\ published' = Append(published, StateChangeMessage(pc, correlation_id))
               /\ pc' = NextPc(pc)
               /\ UNCHANGED <<stats, result, raised>>
            \/ /\ Except(transition(state_machine, pc), stats)
               /\ published' = published
    /\ UNCHANGED <<enable_reasoning, path, n_requests, conf, plan, idx,
                   task_results, stats0, executed, time_ms, correlation_id>>
    /\ UNCHANGED <<registry_vars, manager_vars, rag_vars, other_vars, obs_vars>>

\* an escalation that is also counted as a failure
EscalateCountedFailed(c) ==
    /\ state_machine' = transition(state_machine, "RETURN")
    /\ stats' = FailedStats(stats)
    /\ result' = [Returned("escalated", "low_confidence",
                           {"domain", "confidence", "threshold", "correlation_id",
                            "requires_human_review"})
                  EXCEPT !.confidence = c]
    /\ raised' = raised
    /\ pc' = "idle"

\* _escalate_to_human, lines 301-342
EscalateToHuman(c) ==
    /\ state_machine' = transition(state_machine, "RETURN")
    /\ stats' = [stats EXCEPT !.requests_total = @ + 1]
    /\ result' = [Returned("escalated", "low_confidence",
                           {"domain", "confidence", "threshold", "correlation_id",
                            "requires_human_review"})
                  EXCEPT !.confidence = c]
    /\ raised' = raised
    /\ pc' = "idle"

\* a threshold test that also escalates a confidence equal to the threshold
BelowOrAtThreshold(c) == c <= ConfThreshold

\* the threshold test of line 219
BelowThreshold(c) == c < ConfThreshold

\* lines 210-220: classify the query and test the confidence threshold
Classify ==
    /\ pc = "classify"
    /\ \/ /\ conf' = conf
          /\ ProcessRequestExcept(state_machine, stats)
       \/ \E c \in Confidences :
            /\ conf' = c
            /\ IF BelowThreshold(c)
               THEN EscalateToHuman(c)
               ELSE /\ pc' = "VALIDATE_PRE"
                    /\ UNCHANGED <<state_machine, stats, result, raised>>
    /\ UNCHANGED <<bus_vars, enable_reasoning, path, n_requests, plan, idx,
                   task_results, stats0, executed>>
    /\ UNCHANGED <<registry_vars, manager_vars, rag_vars, other_vars, obs_vars>>

SuccessStats(st) ==
    [st EXCEPT !.requests_total = @ + 1, !.requests_success = @ + 1,
               !.total_latency_ms = @ + 1]

\* lines 246-276: statistics, result and completion message of the simple path
Finish ==
    /\ pc = "finish"
    /\ path = "simple"
    /\ \/ /\ stats' = SuccessStats(stats)
          /\ result' = [Returned("success", "routed",
                                 {"domain", "confidence", "latency_ms",
                                  "correlation_id", "state_history"})
                        EXCEPT !.confidence = conf,
                               !.state_history = state_machine.history]
          /\ published' = Append(published, ResponseMessage(correlation_id))
          /\ pc' = "idle"
          /\ UNCHANGED <<state_machine, raised>>
       \/ /\ ProcessRequestExcept(state_machine, SuccessStats(stats))
          /\ published' = published
    /\ UNCHANGED <<enable_reasoning, path, n_requests, conf, plan, idx,
                   task_results, stats0, executed, time_ms, correlation_id>>
    /\ UNCHANGED <<registry_vars, manager_vars, rag_vars, other_vars, obs_vars>>

\* a planner-produced task: its id and the ids it depends on (the sub-query,
\* description and tools do not influence the control flow)
Task == [task_id : TaskIds, dependencies : SUBSET TaskIds]

\* every execution plan of at most MaxTasks tasks, whatever its dependency
\* graph (forward, dangling, self and cyclic dependencies, repeated ids)
Plans == UNION {[1..n -> Task] : n \in 0..MaxTasks}

\* a call that asks the reasoner again after success=False
RetryAfterReasoningFailure == "plan"

\* lines 397-406: success=False ends the call
AfterReasoningFailure == "idle"

\* lines 394-408: the reasoner analyses the query and returns a plan
Plan ==
    /\ pc = "plan"
    /\ reasoner_calls' = reasoner_calls + 1
    /\ \/ /\ plan' = plan
          /\ ReasoningExcept(state_machine, stats)
       \/ /\ plan' = plan
          /\ result' = Returned("error", "reasoning_failed",
                                {"correlation_id", "latency_ms", "reasoning_error"})
          /\ pc' = AfterReasoningFailure
          /\ UNCHANGED <<state_machine, stats, raised>>
       \/ /\ plan' \in Plans
          /\ pc' = "VALIDATE_PRE"
          /\ UNCHANGED <<state_machine, stats, result, raised>>
    /\ UNCHANGED <<bus_vars, enable_reasoning, path, n_requests, conf, idx,
                   task_results, stats0, executed, complexity, issued, resets>>
    /\ UNCHANGED <<registry_vars, manager_vars, rag_vars, other_vars>>

\* the keys of the dict task_results
Completed(tr) == {tr[i].task_id : i \in 1..Len(tr)}

\* task_results[task_id] = {...}: a new key is appended, a known key is
\* overwritten in place
StoreResult(tr, r) ==
    IF r.task_id \in Completed(tr)
    THEN [i \in 1..Len(tr) |-> IF tr[i].task_id = r.task_id THEN r ELSE tr[i]]
    ELSE Append(tr, r)

\* a dependency check that looks the ids up in the plan, not in task_results
UnsatisfiedInPlan(task, tr) ==
    task.dependencies \ {plan[i].task_id : i \in 1..Len(plan)}

\* a task loop without the dependency check
UnsatisfiedNever(task, tr) == {}

\* lines 438-449: the dependencies of the task that are not yet in task_results
Unsatisfied(task, tr) == task.dependencies \ Completed(tr)

\* lines 437-469: one round of the task loop (or its end)
ExecuteTask ==
    /\ pc = "tasks"
    /\ IF idx = Len(plan)
       THEN /\ pc' = "VALIDATE_POST"
            /\ UNCHANGED <<state_machine, stats, result, raised, idx,
                           task_results, executed>>
       ELSE LET task == plan[idx + 1] IN
            IF Unsatisfied(task, task_results) # {}
            THEN /\ \E dep_id \in Unsatisfied(task, task_results) :
                      result' = [Returned("error", "dependency_not_satisfied",
                                          {"correlation_id", "latency_ms"})
                                 EXCEPT !.task = task.task_id, !.dep = dep_id]
                 /\ pc' = "idle"
                 /\ UNCHANGED <<state_machine, stats, raised, idx,
                                task_results, executed>>
            ELSE \/ /\ ReasoningExcept(state_machine, stats)
                    /\ UNCHANGED <<idx, task_results, executed>>
                 \/ /\ \E c \in Confidences :
                          task_results' =
                              StoreResult(task_results,
                                          [task_id |-> task.task_id,
                                           confidence |-> c,
                                           status |-> "completed"])
                    /\ idx' = idx + 1
                    /\ executed' = Append(executed, idx + 1)
                    /\ pc' = "tasks"
                    /\ UNCHANGED <<state_machine, stats, result, raised>>
    /\ UNCHANGED <<bus_vars, enable_reasoning, path, n_requests, conf, plan, stats0>>
    /\ UNCHANGED <<registry_vars, manager_vars, rag_vars, other_vars, obs_vars>>

ReasoningStats(st) == [SuccessStats(st) EXCEPT !.requests_reasoning = @ + 1]

\* lines 483-518: statistics, result and completion message of the reasoning path
FinishReasoning ==
    /\ pc = "finish"
    /\ path = "reasoning"
    /\ \/ /\ stats' = ReasoningStats(stats)
          /\ result' = [Returned("success", "reasoned",
                                 {"reasoning_used", "num_tasks", "reasoning_analysis",
                                  "reasoning_time_ms", "execution_time_ms",
                                  "total_latency_ms", "correlation_id",
                                  "state_history", "task_results"})
                        EXCEPT !.state_history = state_machine.history,
                               !.task_results = task_results]
          /\ published' = Append(published, ResponseMessage(correlation_id))
          /\ pc' = "idle"
          /\ UNCHANGED <<state_machine, raised>>
       \/ /\ ReasoningExcept(state_machine, ReasoningStats(stats))
          /\ published' = published
    /\ UNCHANGED <<enable_reasoning, path, n_requests, conf, plan, idx,
                   task_results, stats0, executed, time_ms, correlation_id>>
    /\ UNCHANGED <<registry_vars, manager_vars, rag_vars, other_vars, obs_vars>>

\* __init__, lines 41-93: a fresh orchestrator
OrchInit ==
    /\ state_machine = reset
    /\ stats = InitStats
    /\ pc = "idle"
    /\ path = "none"
    /\ n_requests = 0
    /\ conf = NoConf
    /\ plan = <<>>
    /\ idx = 0
    /\ task_results = <<>>
    /\ result = NoResult
    /\ stats0 = InitStats
    /\ executed = <<>>
    /\ raised = NoRaise
    /\ time_ms = 1
    /\ correlation_id = 0
    /\ published = <<>>
    /\ req = [r \in Requests |-> NewRequest]
    /\ sm_call = NoCall
    /\ domains = <<>>
    /\ domain_call = NoDomainCall
    /\ reasoner_calls = 0
    /\ complexity = "none"
    /\ issued = <<>>
    /\ resets = 0

OrchNext ==
    \/ ProcessRequest
    \/ ComplexityCheck
    \/ Advance
    \/ Classify
    \/ Finish
    \/ Plan
    \/ ExecuteTask
    \/ FinishReasoning

\* reset_stats calls explored in one run
MaxResets == 1

\* router.reset_stats(): the usage counters start again, the domains stay
RouterResetStats(doms) == [d \in DOMAIN doms |-> [doms[d] EXCEPT !.uses = 0]]

\* reset_stats(), lines 575-585, called between two requests
ResetStats ==
    /\ pc = "idle"
    /\ resets < MaxResets
    /\ resets' = resets + 1
    /\ stats' = InitStats
    /\ domains' = RouterResetStats(domains)
    /\ UNCHANGED <<enable_reasoning, state_machine, pc, path, n_requests, conf, plan,
                   idx, task_results, result, stats0, executed, raised, bus_vars,
                   reasoner_calls, complexity, issued, req, sm_call, domain_call,
                   registry_vars, manager_vars, rag_vars>>

(***************************************************************************)
(* Concurrent process_request calls on one orchestrator (the async layer   *)
(* runs requests on a pool of worker threads): each call is a thread with  *)
(* its own locals; self.state_machine (line 72) and self.stats are shared. *)
(* The calls take the single-domain path and no collaborator fails.        *)
(***************************************************************************)
conc_unchanged == <<enable_reasoning, pc, path, n_requests, conf, plan, idx,
                    task_results, result, stats0, executed, raised, bus_vars,
                    obs_vars, sm_call, domains, domain_call, registry_vars,
                    manager_vars, rag_vars>>

\* lines 187-190: the call resets the orchestrator's state machine
ConcReset(r) ==
    /\ req[r].pc = "start"
    /\ state_machine' = reset
    /\ req' = [req EXCEPT ![r].pc = "CLASSIFY"]
    /\ UNCHANGED <<stats, conc_unchanged>>

\* one transition of lines 207-244; a transition that raises is caught by the
\* handler of lines 278-299
ConcAdvance(r) ==
    /\ req[r].pc \in WorkflowState \ {"INIT", "ERROR"}
    /\ IF transition_raises(state_machine, req[r].pc, FALSE)
       THEN /\ state_machine' = ErrorTransition(state_machine)
            /\ stats' = FailedStats(stats)
            /\ req' = [req EXCEPT ![r].pc = "returned", ![r].status = "error"]
       ELSE /\ state_machine' = transition(state_machine, req[r].pc)
            /\ req' = [req EXCEPT ![r].pc = NextPc(@),
                                  ![r].entered = Append(@, req[r].pc)]
            /\ stats' = stats
    /\ UNCHANGED conc_unchanged

\* lines 210-220: the query is classified with a confidence above the threshold
ConcClassify(r) ==
    /\ req[r].pc = "classify"
    /\ req' = [req EXCEPT ![r].pc = "VALIDATE_PRE"]
    /\ UNCHANGED <<state_machine, stats, conc_unchanged>>

\* lines 246-276: statistics and result
ConcFinish(r) ==
    /\ req[r].pc = "finish"
    /\ stats' = SuccessStats(stats)
    /\ req' = [req EXCEPT ![r].pc = "returned", ![r].status = "success",
                          ![r].state_history = state_machine.history]
    /\ UNCHANGED <<state_machine, conc_unchanged>>

ConcNext ==
    \/ \E r \in Requests : ConcReset(r)
    \/ \E r \in Requests : ConcAdvance(r)
    \/ \E r \in Requests : ConcClassify(r)
    \/ \E r \in Requests : ConcFinish(r)

(***************************************************************************)
(* Domain registration: TinyBERTOrchestrator.register_domain over the      *)
(* router's register_domain (mdsa.core.router.IntentRouter).               *)
(***************************************************************************)
\* the domains of the demo, and two descriptions to tell registrations apart
DomainIds == {"finance", "support"}
Descriptions == {"first", "second"}
\* classifications counted per domain
MaxUses == 1

\* router.register_domain(id, ...): DuplicateDomainError for a known id
RouterRegisterError(doms, name) ==
    IF name \in DOMAIN doms THEN "DuplicateDomainError" ELSE "none"

\* router.domains after router.register_domain(id, description, keywords)
RouterRegister(doms, name, description) ==
    IF name \in DOMAIN doms
    THEN doms
    ELSE [d \in DOMAIN doms \cup {name} |->
             IF d = name THEN [description |-> description, uses |-> 0] ELSE doms[d]]

\* a register_domain that ignores what the router raised
RegisterDomainSwallows(router_error, publish_error) == publish_error

\* lines 149-158: what register_domain raises to its caller: the router's
\* error (the call of line 149 is not guarded), else the message bus's
RegisterDomainError(router_error, publish_error) ==
    IF router_error # "none" THEN router_error ELSE publish_error

dom_unchanged == <<enable_reasoning, state_machine, stats, pc, path, n_requests,
                   conf, plan, idx, task_results, result, stats0, executed, raised,
                   time_ms, correlation_id, obs_vars, req, sm_call, registry_vars,
                   manager_vars, rag_vars>>

\* orchestrator.register_domain(name, description, keywords), lines 128-158
RegisterDomain(name, description) ==
    \E publish_error \in {"none", "PublishError"} :
        LET router_error == RouterRegisterError(domains, name) IN
        /\ domains' = RouterRegister(domains, name, description)
        /\ domain_call' = [name |-> name,
                           error |-> RegisterDomainError(router_error, publish_error),
                           before |-> domains]
        /\ published' =
               IF router_error = "none" /\ publish_error = "none"
               THEN Append(published, [type |-> "LOG", state |-> "none",
                                       correlation_id |-> 0])
               ELSE published
        /\ UNCHANGED dom_unchanged

\* router.classify picks a registered domain and counts the use
RouterClassify(d) ==
    /\ d \in DOMAIN domains
    /\ domains[d].uses < MaxUses
    /\ domains' = [domains EXCEPT ![d].uses = @ + 1]
    /\ domain_call' = NoDomainCall
    /\ UNCHANGED <<published, dom_unchanged>>

DomainsNext ==
    \/ \E name \in DomainIds, description \in Descriptions :
          RegisterDomain(name, description)
    \/ \E d \in DomainIds : RouterClassify(d)

(***************************************************************************)
(* Model registry (mdsa.models.ModelRegistry): at most max_models entries, *)
(* least-recently-used eviction.                                           *)
(***************************************************************************)
\* largest max_models explored
MaxModels == 2
\* model identifiers: one more than the largest registry can hold
ModelIds == 1..(MaxModels + 1)
\* registry operations explored in a run of direct calls
MaxClock == 5
\* "no model"
NoModel == 0

EmptyRegistry == [m \in {} |-> 0]

NewEntry(handle, now) ==
    [handle |-> handle, use_count |-> 0, last_used |-> now, loaded_at |-> now]

is_loaded(reg, m) == m \in DOMAIN reg

\* get_stats()
models_loaded(reg) == Cardinality(DOMAIN reg)

RECURSIVE SumUses(_, _)
SumUses(reg, ids) ==
    IF ids = {} THEN 0
    ELSE LET m == CHOOSE x \in ids : TRUE
         IN reg[m].use_count + SumUses(reg, ids \ {m})

total_uses(reg) == SumUses(reg, DOMAIN reg)

\* a successful get: use_count and last_used are updated
Touch(reg, m, now) ==
    [reg EXCEPT ![m].use_count = @ + 1, ![m].last_used = now]

\* an eviction by insertion time (first in, first out)
OldestInserted(reg) ==
    CHOOSE m \in DOMAIN reg : \A k \in DOMAIN reg : reg[m].loaded_at <= reg[k].loaded_at

\* the entry with the oldest last_used timestamp
LeastRecentlyUsed(reg) ==
    CHOOSE m \in DOMAIN reg : \A k \in DOMAIN reg : reg[m].last_used <= reg[k].last_used

\* a register that makes room only once the registry is over its limit
EvicteeWhenOver(reg, max) ==
    IF models_loaded(reg) > max THEN LeastRecentlyUsed(reg) ELSE NoModel

\* the id register evicts, if any: the registry is full
Evictee(reg, max) ==
    IF models_loaded(reg) >= max THEN LeastRecentlyUsed(reg) ELSE NoModel

\* register of an id that is not present: evict if full, then insert
Register(reg, m, handle, now, max) ==
    LET keep == DOMAIN reg \ {Evictee(reg, max)}
    IN [k \in keep \cup {m} |-> IF k = m THEN NewEntry(handle, now) ELSE reg[k]]

\* a sequence without the element x
Without(seq, x) == SelectSeq(seq, LAMBDA y : y # x)

\* registry.register(model_id, ...) called directly
RegistryRegister(m) ==
    /\ clock < MaxClock
    /\ clock' = clock + 1
    /\ IF is_loaded(registry, m)
       THEN /\ reg_error' = "AlreadyRegisteredError"
            /\ UNCHANGED <<registry, evicted, access_order, lru_before>>
       ELSE /\ reg_error' = "none"
            /\ registry' = Register(registry, m, 0, clock + 1, max_models)
            /\ evicted' = Evictee(registry, max_models)
            /\ lru_before' = IF access_order = <<>> THEN NoModel ELSE Head(access_order)
            /\ access_order' = Append(Without(access_order, Evictee(registry, max_models)), m)
    /\ UNCHANGED <<max_models, orch_vars, other_vars, manager_vars, rag_vars>>

\* registry.get(model_id) called directly: None for an id that is not loaded
RegistryGet(m) ==
    /\ clock < MaxClock
    /\ clock' = clock + 1
    /\ reg_error' = "none"
    /\ IF is_loaded(registry, m)
       THEN /\ registry' = Touch(registry, m, clock + 1)
            /\ access_order' = Append(Without(access_order, m), m)
       ELSE UNCHANGED <<registry, access_order>>
    /\ evicted' = NoModel
    /\ UNCHANGED <<lru_before, max_models, orch_vars, other_vars, manager_vars, rag_vars>>

\* registry.clear()
RegistryClear ==
    /\ clock < MaxClock
    /\ registry # EmptyRegistry
    /\ clock' = clock + 1
    /\ reg_error' = "none"
    /\ registry' = EmptyRegistry
    /\ access_order' = <<>>
    /\ evicted' = NoModel
    /\ UNCHANGED <<lru_before, max_models, orch_vars, other_vars, manager_vars, rag_vars>>

RegistryNext ==
    \/ \E m \in ModelIds : RegistryRegister(m)
    \/ \E m \in ModelIds : RegistryGet(m)
    \/ RegistryClear

(***************************************************************************)
(* Model manager (mdsa.models.ModelManager): get_or_load, one load per     *)
(* model id under that id's load lock.                                     *)
(***************************************************************************)
\* concurrent get_or_load callers
NumCallers == 2
Callers == 1..NumCallers
\* "no caller"
NoCaller == 0

NewCaller == [pc |-> "start", model_id |-> NoModel, got |-> 0, error |-> "none"]

\* a manager that lets every caller in, whoever holds the lock
LockIgnored(m) == TRUE

\* the load lock of model id m can be taken
LockFree(m) == load_lock[m] = NoCaller

\* get_or_load(model_id): the caller takes the load lock of its model id
Acquire(t, m) ==
    /\ caller[t].pc = "start"
    /\ LockFree(m)
    /\ load_lock' = [load_lock EXCEPT ![m] = t]
    /\ caller' = [caller EXCEPT ![t].pc = "check", ![t].model_id = m]
    /\ UNCHANGED <<loads, registry_vars, orch_vars, other_vars, rag_vars>>

\* under the lock: registry.get; a hit is returned, a miss goes on to load
Check(t) ==
    /\ caller[t].pc = "check"
    /\ clock' = clock + 1
    /\ LET m == caller[t].model_id IN
       IF is_loaded(registry, m)
       THEN /\ registry' = Touch(registry, m, clock + 1)
            /\ access_order' = Append(Without(access_order, m), m)
            /\ caller' = [caller EXCEPT ![t].pc = "done",
                                        ![t].got = registry[m].handle]
            /\ load_lock' = [load_lock EXCEPT ![m] = IF @ = t THEN NoCaller ELSE @]
       ELSE /\ caller' = [caller EXCEPT ![t].pc = "load"]
            /\ UNCHANGED <<registry, access_order, load_lock>>
    /\ UNCHANGED <<loads, max_models, reg_error, evicted, lru_before, orch_vars, other_vars, rag_vars>>

\* the physical load of the weights (the suspension point)
Load(t) ==
    /\ caller[t].pc = "load"
    /\ loads' = [loads EXCEPT ![caller[t].model_id] = @ + 1]
    /\ caller' = [caller EXCEPT ![t].pc = "register"]
    /\ UNCHANGED <<load_lock, registry_vars, orch_vars, other_vars, rag_vars>>

\* registry.register of the loaded model, its checkout, and the release of
\* the lock
RegisterLoaded(t) ==
    /\ caller[t].pc = "register"
    /\ clock' = clock + 1
    /\ LET m == caller[t].model_id IN
       /\ IF is_loaded(registry, m)
          THEN /\ caller' = [caller EXCEPT ![t].pc = "done",
                                           ![t].error = "AlreadyRegisteredError"]
               /\ UNCHANGED <<registry, evicted, access_order, lru_before>>
          ELSE /\ registry' = Touch(Register(registry, m, loads[m], clock + 1, max_models),
                                    m, clock + 1)
               /\ evicted' = Evictee(registry, max_models)
               /\ lru_before' = IF access_order = <<>> THEN NoModel ELSE Head(access_order)
               /\ access_order' =
                      Append(Without(access_order, Evictee(registry, max_models)), m)
               /\ caller' = [caller EXCEPT ![t].pc = "done", ![t].got = loads[m]]
       /\ load_lock' = [load_lock EXCEPT ![m] = IF @ = t THEN NoCaller ELSE @]
    /\ UNCHANGED <<loads, max_models, reg_error, orch_vars, other_vars, rag_vars>>

\* the lock of model id m after caller t has left get_or_load, for a manager
\* that leaves it held when the load raised
KeepLock(t, m) == load_lock

\* the lock of model id m after caller t has left get_or_load
ReleaseLock(t, m) == [load_lock EXCEPT ![m] = IF @ = t THEN NoCaller ELSE @]

\* the physical load raises (missing weights, out of memory): nothing is
\* registered, the lock is released, the error goes to the caller
LoadRaises(t) ==
    /\ caller[t].pc = "load"
    /\ loads' = [loads EXCEPT ![caller[t].model_id] = @ + 1]
    /\ caller' = [caller EXCEPT ![t].pc = "done", ![t].error = "LoadError"]
    /\ load_lock' = ReleaseLock(t, caller[t].model_id)
    /\ UNCHANGED <<registry_vars, orch_vars, other_vars, rag_vars>>

\* the caller that obtained a model finishes its generation with it
EndGeneration(t) ==
    /\ caller[t].pc = "done"
    /\ caller[t].error = "none"
    /\ caller' = [caller EXCEPT ![t].pc = "finished"]
    /\ UNCHANGED <<load_lock, loads, registry_vars, orch_vars, other_vars, rag_vars>>

\* a caller calls registry.register(model_id, ...) itself
DirectRegister(t, m) ==
    /\ caller[t].pc = "start"
    /\ clock' = clock + 1
    /\ IF is_loaded(registry, m)
       THEN /\ caller' = [caller EXCEPT ![t].pc = "finished", ![t].model_id = m,
                                        ![t].error = "AlreadyRegisteredError"]
            /\ UNCHANGED <<registry, evicted, access_order, lru_before>>
       ELSE /\ registry' = Register(registry, m, 0, clock + 1, max_models)
            /\ evicted' = Evictee(registry, max_models)
            /\ lru_before' = IF access_order = <<>> THEN NoModel ELSE Head(access_order)
            /\ access_order' =
                   Append(Without(access_order, Evictee(registry, max_models)), m)
            /\ caller' = [caller EXCEPT ![t].pc = "finished", ![t].model_id = m]
    /\ UNCHANGED <<load_lock, loads, max_models, reg_error, orch_vars, other_vars, rag_vars>>

\* a caller calls registry.get(model_id) itself and, on a hit, generates with
\* the model it was given
DirectGet(t, m) ==
    /\ caller[t].pc = "start"
    /\ clock' = clock + 1
    /\ IF is_loaded(registry, m)
       THEN /\ registry' = Touch(registry, m, clock + 1)
            /\ access_order' = Append(Without(access_order, m), m)
            /\ caller' = [caller EXCEPT ![t].pc = "done", ![t].model_id = m,
                                        ![t].got = registry[m].handle]
       ELSE /\ caller' = [caller EXCEPT ![t].pc = "finished", ![t].model_id = m]
            /\ UNCHANGED <<registry, access_order>>
    /\ UNCHANGED <<load_lock, loads, max_models, reg_error, evicted, lru_before,
                   orch_vars, other_vars, rag_vars>>

ManagerNext ==
    \/ \E t \in Callers, m \in ModelIds : Acquire(t, m)
    \/ \E t \in Callers : Check(t)
    \/ \E t \in Callers : Load(t)
    \/ \E t \in Callers : RegisterLoaded(t)

\* a fresh registry and manager, every caller about to call get_or_load
ModelsInit ==
    /\ registry = EmptyRegistry
    /\ clock = 0
    /\ reg_error = "none"
    /\ evicted = NoModel
    /\ access_order = <<>>
    /\ lru_before = NoModel
    /\ load_lock = [m \in ModelIds |-> NoCaller]
    /\ caller = [t \in Callers |-> NewCaller]
    /\ loads = [m \in ModelIds |-> 0]

(***************************************************************************)
(* Dual-tier retrieval store (mdsa.memory.DualRAG): one global corpus and  *)
(* one local corpus per registered domain.                                 *)
(***************************************************************************)
\* documents inserted in one run
MaxInserts == 3
\* DualRAG(max_global_docs, max_local_docs)
MaxGlobalDocs == 2
MaxLocalDocs == 2
\* largest top_k asked for
MaxTopK == 2
\* the domains of the isolation tests
RagDomains == {"medical_coding", "clinical_diagnosis"}
\* document texts and queries, as the words they contain
Contents == {{"icd"}, {"icd", "cpt"}}
Queries == {{"icd"}, {"cpt"}}

NoRetrieval == [domain |-> "none", query |-> {}, top_k |-> 0,
                search_local |-> FALSE, search_global |-> FALSE,
                local |-> <<>>, global |-> <<>>]

\* lexical similarity of a document to the query: the words they share
Score(query, doc) == Cardinality(query \cap doc.content)

\* the positions of corpus that match the query at all
Matching(corpus, query) == {i \in 1..Len(corpus) : Score(query, corpus[i]) > 0}

\* the best position of S: highest score, the earliest inserted on a tie
Best(corpus, query, S) ==
    CHOOSE i \in S : \A j \in S :
        \/ Score(query, corpus[i]) > Score(query, corpus[j])
        \/ Score(query, corpus[i]) = Score(query, corpus[j]) /\ i <= j

RECURSIVE Ranked(_, _, _)
Ranked(corpus, query, S) ==
    IF S = {} THEN <<>>
    ELSE LET b == Best(corpus, query, S)
         IN <<corpus[b]>> \o Ranked(corpus, query, S \ {b})

\* the top_k matching documents of a corpus, by descending score
Search(corpus, query, top_k) ==
    LET r == Ranked(corpus, query, Matching(corpus, query))
    IN SubSeq(r, 1, IF Len(r) < top_k THEN Len(r) ELSE top_k)

\* an insertion that keeps a full corpus as it is and drops the new document
InsertKeepOldest(corpus, doc, cap) ==
    IF Len(corpus) >= cap THEN corpus ELSE Append(corpus, doc)

\* insertion into a corpus of at most cap documents: first in, first out
Insert(corpus, doc, cap) ==
    IF Len(corpus) >= cap THEN Append(Tail(corpus), doc) ELSE Append(corpus, doc)

RECURSIVE Concat(_, _)
Concat(f, S) ==
    IF S = {} THEN <<>>
    ELSE LET d == CHOOSE x \in S : TRUE IN f[d] \o Concat(f, S \ {d})

\* a local search that looks into every domain's local corpus
EveryLocalCorpus(d) == Concat(local_rags, DOMAIN local_rags)

\* the corpus a local search of domain d looks into
LocalCorpus(d) == local_rags[d]

\* register_domain(domain_id): idempotent
RagRegisterDomain(d) ==
    /\ d \notin DOMAIN local_rags
    /\ local_rags' = [x \in DOMAIN local_rags \cup {d} |->
                         IF x = d THEN <<>> ELSE local_rags[x]]
    /\ rag_error' = "none"
    /\ retrieved' = NoRetrieval
    /\ UNCHANGED <<global_rag, inserted_into, orch_vars, other_vars, registry_vars, manager_vars>>

\* add_to_global(content, ...) -> doc_id
AddToGlobal(content) ==
    /\ Len(inserted_into) < MaxInserts
    /\ LET doc == [doc_id |-> Len(inserted_into) + 1, content |-> content] IN
       /\ global_rag' = Insert(global_rag, doc, MaxGlobalDocs)
       /\ inserted_into' = Append(inserted_into, "global")
    /\ rag_error' = "none"
    /\ retrieved' = NoRetrieval
    /\ UNCHANGED <<local_rags, orch_vars, other_vars, registry_vars, manager_vars>>

\* add_to_local(domain_id, content, ...) -> doc_id, UnknownDomainError for a
\* domain that is not registered
AddToLocal(d, content) ==
    /\ Len(inserted_into) < MaxInserts
    /\ retrieved' = NoRetrieval
    /\ IF d \notin DOMAIN local_rags
       THEN /\ rag_error' = "UnknownDomainError"
            /\ UNCHANGED <<local_rags, inserted_into>>
       ELSE LET doc == [doc_id |-> Len(inserted_into) + 1, content |-> content] IN
            /\ local_rags' = [local_rags EXCEPT ![d] = Insert(@, doc, MaxLocalDocs)]
            /\ inserted_into' = Append(inserted_into, d)
            /\ rag_error' = "none"
    /\ UNCHANGED <<global_rag, orch_vars, other_vars, registry_vars, manager_vars>>

\* retrieve(query, domain_id, search_local, search_global, top_k)
Retrieve(query, d, search_local, search_global, top_k) ==
    /\ IF d \notin DOMAIN local_rags
       THEN /\ rag_error' = "UnknownDomainError"
            /\ retrieved' = NoRetrieval
       ELSE /\ rag_error' = "none"
            /\ retrieved' =
                  [domain |-> d, query |-> query, top_k |-> top_k,
                   search_local |-> search_local, search_global |-> search_global,
                   local |-> IF search_local
                             THEN Search(LocalCorpus(d), query, top_k) ELSE <<>>,
                   global |-> IF search_global
                              THEN Search(global_rag, query, top_k) ELSE <<>>]
    /\ UNCHANGED <<local_rags, global_rag, inserted_into, orch_vars, other_vars, registry_vars,
                   manager_vars>>

RagNext ==
    \/ \E d \in RagDomains : RagRegisterDomain(d)
    \/ \E c \in Contents : AddToGlobal(c)
    \/ \E d \in RagDomains, c \in Contents : AddToLocal(d, c)
    \/ \E q \in Queries, d \in RagDomains, sl \in BOOLEAN, sg \in BOOLEAN,
          k \in 1..MaxTopK : Retrieve(q, d, sl, sg, k)

\* DualRAG(): empty global corpus, no domain registered
RagInit ==
    /\ local_rags = [d \in {} |-> <<>>]
    /\ global_rag = <<>>
    /\ retrieved = NoRetrieval
    /\ rag_error = "none"
    /\ inserted_into = <<>>

(***************************************************************************)
(* Specifications: one per component, over the same state.                 *)
(***************************************************************************)
vars == <<orch_vars, registry_vars, manager_vars, rag_vars, other_vars>>

\* the orchestrator handling requests one after another
Init ==
    /\ enable_reasoning \in BOOLEAN
    /\ OrchInit
    /\ max_models = 1
    /\ ModelsInit
    /\ RagInit

Next == OrchNext

Spec == Init /\ [][Next]_vars

\* direct calls of the registry, one after another
InitRegistry ==
    /\ enable_reasoning = TRUE
    /\ OrchInit
    /\ max_models \in 1..MaxModels
    /\ ModelsInit
    /\ RagInit

SpecRegistry == InitRegistry /\ [][RegistryNext]_vars

\* NumCallers concurrent get_or_load calls on one manager
SpecManager == InitRegistry /\ [][ManagerNext]_vars

\* concurrent requests: each calls get_or_load (which may fail to load) or
\* the registry itself, and generates with the model it obtained
ModelsNext ==
    \/ ManagerNext
    \/ \E t \in Callers : LoadRaises(t)
    \/ \E t \in Callers : EndGeneration(t)
    \/ \E t \in Callers, m \in ModelIds : DirectRegister(t, m)
    \/ \E t \in Callers, m \in ModelIds : DirectGet(t, m)

SpecModels == InitRegistry /\ [][ModelsNext]_vars

\* concurrent get_or_load calls whose physical load may raise
LoadFailureNext == ManagerNext \/ \E t \in Callers : LoadRaises(t)

SpecLoadFailure == InitRegistry /\ [][LoadFailureNext]_vars

\* NumRequests process_request calls running concurrently on one orchestrator
\* with reasoning disabled
InitConcurrent ==
    /\ enable_reasoning = FALSE
    /\ OrchInit
    /\ max_models = 1
    /\ ModelsInit
    /\ RagInit

SpecConcurrent == InitConcurrent /\ [][ConcNext]_vars

\* the demo's use: domains are registered, then process_request and
\* reset_stats are called one after another
RegisterBeforeRequests ==
    /\ n_requests = 0
    /\ \E name \in DomainIds, description \in Descriptions :
          RegisterDomain(name, description)

SequentialNext == OrchNext \/ RegisterBeforeRequests \/ ResetStats

SpecSequential == Init /\ [][SequentialNext]_vars

\* calls of one state machine, one after another
SpecStateMachine == InitConcurrent /\ [][SmNext]_vars

\* register_domain and classify calls, one after another
SpecDomains == InitConcurrent /\ [][DomainsNext]_vars

\* calls of one DualRAG, one after another
InitRag ==
    /\ enable_reasoning = TRUE
    /\ OrchInit
    /\ max_models = 1
    /\ ModelsInit
    /\ RagInit

SpecRag == InitRag /\ [][RagNext]_vars

(***************************************************************************)
(* Properties of the orchestrator, checked under Spec.                     *)
(***************************************************************************)
\* C1: a request that completes with status 'success' (simple or reasoning
\* path, after any earlier requests) leaves the state machine's history, and
\* the state_history it reports, exactly CLASSIFY, VALIDATE_PRE, LOAD_SLM,
\* EXECUTE, VALIDATE_POST, LOG, RETURN; an escalated request leaves exactly
\* CLASSIFY, RETURN.
C1_StateHistoryOnSuccess ==
    /\ result.status = "success" =>
          /\ state_machine.history = <<"CLASSIFY", "VALIDATE_PRE", "LOAD_SLM",
                                       "EXECUTE", "VALIDATE_POST", "LOG", "RETURN">>
          /\ result.state_history = state_machine.history
    /\ result.status = "escalated" =>
          state_machine.history = <<"CLASSIFY", "RETURN">>

\* a second request succeeds on the reasoning path after a failed first one
C1_Witness ==
    /\ n_requests = 2
    /\ stats0.requests_failed = 1
    /\ path = "reasoning"
    /\ Len(plan) = 2
    /\ result.status = "success"

\* C2: a request whose query is classified below the confidence threshold
\* adds exactly one to requests_total and leaves requests_success,
\* requests_failed, requests_reasoning and total_latency_ms as they were.
C2_EscalationAccounting ==
    (pc = "idle" /\ conf # NoConf /\ conf < ConfThreshold) =>
        stats = [stats0 EXCEPT !.requests_total = @ + 1]

\* an escalation after an earlier successful request
C2_Witness ==
    /\ pc = "idle"
    /\ conf # NoConf
    /\ conf < ConfThreshold
    /\ stats0.requests_success = 1
    /\ stats.requests_total = 2

\* C3: on the single-domain path a confidence strictly below the threshold
\* gives status 'escalated' and the workflow never enters VALIDATE_PRE,
\* LOAD_SLM or EXECUTE; a confidence equal to or above the threshold is routed
\* (success unless a later step raises) and never reported as escalated.
C3_ThresholdRouting ==
    /\ (conf # NoConf /\ conf < ConfThreshold) =>
          /\ result.status = "escalated"
          /\ \A i \in 1..Len(state_machine.history) :
                state_machine.history[i] \notin {"VALIDATE_PRE", "LOAD_SLM", "EXECUTE"}
    /\ (conf # NoConf /\ conf >= ConfThreshold) =>
          /\ result.status # "escalated"
          /\ (pc = "idle" /\ ~raised.caught) => result.status = "success"

\* a confidence exactly at the threshold is routed to success
C3_Witness ==
    /\ conf = ConfThreshold
    /\ pc = "idle"
    /\ result.status = "success"

\* the ids of the tasks at plan positions 1..n
IdsBefore(p, i) == {p[j].task_id : j \in 1..(i - 1)}

\* C4: on the reasoning path tasks are executed in plan order without gaps,
\* and a task is executed and recorded 'completed' only when every id in its
\* dependencies was recorded completed earlier in the same request, for every
\* plan (forward, dangling, self and cyclic dependencies included).
C4_DependencyOrder ==
    /\ Len(executed) <= Len(plan)
    /\ \A i \in 1..Len(executed) :
          /\ executed[i] = i
          /\ plan[i].dependencies \subseteq IdsBefore(plan, i)
    /\ Completed(task_results) = IdsBefore(plan, Len(executed) + 1)
    /\ \A i \in 1..Len(task_results) : task_results[i].status = "completed"

\* a two-task plan whose second task depends on the first has run to success
C4_Witness ==
    /\ Len(plan) = 2
    /\ plan[1].task_id # plan[2].task_id
    /\ plan[2].dependencies = {plan[1].task_id}
    /\ executed = <<1, 2>>
    /\ result.status = "success"

\* plan positions whose dependencies are not all met by the tasks before them
Blocked(p) == {i \in 1..Len(p) : ~(p[i].dependencies \subseteq IdsBefore(p, i))}

FirstBlocked(p) == CHOOSE i \in Blocked(p) : \A j \in Blocked(p) : i <= j

\* C5: when a task's turn comes with a dependency not completed, neither it
\* nor a later task is executed, and (unless an earlier step raised) the call
\* returns status 'error' with a message naming that task and an unsatisfied
\* dependency of it, carrying no task_results.
C5_DependencyUnsatisfied ==
    Blocked(plan) # {} =>
        LET b == FirstBlocked(plan) IN
        /\ Len(executed) < b
        /\ (pc = "idle" /\ ~raised.caught) =>
              /\ result.status = "error"
              /\ result.message = "dependency_not_satisfied"
              /\ result.task = plan[b].task_id
              /\ result.dep \in plan[b].dependencies \ IdsBefore(plan, b)
              /\ Len(executed) = b - 1
              /\ "task_results" \notin result.keys
              /\ result.task_results = <<>>

\* the second task of a plan is refused after the first one was executed
C5_Witness ==
    /\ pc = "idle"
    /\ Len(plan) = 2
    /\ executed = <<1>>
    /\ result.message = "dependency_not_satisfied"
    /\ result.task = plan[2].task_id

\* C6: no exception escapes process_request: whichever collaborator fails at
\* whichever step, the call returns a dict whose status is 'success',
\* 'escalated' or 'error'.
C6_NoExceptionEscapes ==
    (pc = "idle" /\ n_requests > 0) =>
        /\ result.outcome = "returned"
        /\ result.status \in {"success", "escalated", "error"}

AllDone == \A t \in Callers : caller[t].pc = "done"

\* C8: K concurrent get_or_load calls for the same model id perform, under
\* every interleaving, exactly one physical load; when all have returned
\* models_loaded = 1, total_uses = K, every caller holds the same registry
\* entry, and no caller saw AlreadyRegisteredError.
C8_AtomicGetOrLoad ==
    \A m \in ModelIds :
        (\A t \in Callers : caller[t].model_id \in {m, NoModel}) =>
            /\ loads[m] <= 1
            /\ \A t \in Callers : caller[t].error = "none"
            /\ AllDone =>
                  /\ loads[m] = 1
                  /\ models_loaded(registry) = 1
                  /\ total_uses(registry) = NumCallers
                  /\ \A t \in Callers : caller[t].got = registry[m].handle

\* every caller asked for model 1 and has returned
C8_Witness ==
    /\ AllDone
    /\ \A t \in Callers : caller[t].model_id = 1
    /\ is_loaded(registry, 1)

\* the ids in a sequence
Range(seq) == {seq[i] : i \in 1..Len(seq)}

\* C9: with max_models = N, a register into a registry holding N entries
\* evicts exactly the entry accessed least recently (a successful get is an
\* access; insertion order and use_count play no part): afterwards that id is
\* not loaded and the N most recently accessed ids are.
C9_LruEviction ==
    evicted # NoModel =>
        /\ evicted = lru_before
        /\ ~is_loaded(registry, evicted)
        /\ models_loaded(registry) = max_models
        /\ DOMAIN registry = Range(access_order)
        /\ Len(access_order) = max_models

\* models 1 and 2 are registered, 1 is touched by a get, and registering 3
\* evicts 2 although 1 was inserted first
C9_Witness ==
    /\ max_models = 2
    /\ evicted = 2
    /\ is_loaded(registry, 1)
    /\ is_loaded(registry, 3)
    /\ registry[1].loaded_at < registry[3].loaded_at
    /\ registry[1].use_count = 1
(***************************************************************************)
(* Properties of the dual-tier retrieval store (SpecRag).                  *)
(***************************************************************************)
\* C10: a retrieve on domain B never returns, in its local result, a document
\* that was inserted into another domain's local corpus (or into the global
\* one), also when the corpora hold the same texts; with search_global off it
\* returns no global document; and a matching document of B's own corpus is
\* found unless top_k documents that score at least as well were returned.
C10_LocalIsolation ==
    retrieved.domain # "none" =>
        /\ \A i \in 1..Len(retrieved.local) :
              inserted_into[retrieved.local[i].doc_id] = retrieved.domain
        /\ ~retrieved.search_global => retrieved.global = <<>>
        /\ retrieved.search_local =>
              \A i \in 1..Len(local_rags[retrieved.domain]) :
                 LET doc == local_rags[retrieved.domain][i] IN
                 Score(retrieved.query, doc) > 0 =>
                    \/ doc \in Range(retrieved.local)
                    \/ /\ Len(retrieved.local) = retrieved.top_k
                       /\ \A j \in 1..Len(retrieved.local) :
                             Score(retrieved.query, retrieved.local[j])
                                 >= Score(retrieved.query, doc)

\* both domains hold the same text; a local-only retrieve on clinical_diagnosis
\* returns its own copy and not medical_coding's
C10_Witness ==
    /\ retrieved.domain = "clinical_diagnosis"
    /\ retrieved.search_local
    /\ ~retrieved.search_global
    /\ Len(retrieved.local) = 1
    /\ "medical_coding" \in DOMAIN local_rags
    /\ \E i \in 1..Len(local_rags["medical_coding"]) :
          /\ local_rags["medical_coding"][i].content = retrieved.local[1].content
          /\ Score(retrieved.query, local_rags["medical_coding"][i]) > 0

\* the doc ids inserted into corpus c ("global" or a domain), and the latest
\* cap of them
InsertedIds(c) == {i \in 1..Len(inserted_into) : inserted_into[i] = c}

LatestIds(c, cap) ==
    {i \in InsertedIds(c) : Cardinality({j \in InsertedIds(c) : j > i}) < cap}

DocIds(corpus) == {corpus[i].doc_id : i \in 1..Len(corpus)}

\* C11: no corpus ever holds more documents than its cap; each corpus holds
\* exactly the latest cap documents inserted into it, oldest first, whatever
\* their scores and whatever was retrieved before; so a global search never
\* returns an evicted document and returns every retained one that matches
\* when top_k allows.
C11_FifoCap ==
    /\ Len(global_rag) <= MaxGlobalDocs
    /\ DocIds(global_rag) = LatestIds("global", MaxGlobalDocs)
    /\ \A i, j \in 1..Len(global_rag) : i < j => global_rag[i].doc_id < global_rag[j].doc_id
    /\ \A d \in DOMAIN local_rags :
          /\ Len(local_rags[d]) <= MaxLocalDocs
          /\ DocIds(local_rags[d]) = LatestIds(d, MaxLocalDocs)
    /\ (retrieved.domain # "none" /\ retrieved.search_global) =>
          /\ DocIds(retrieved.global) \subseteq LatestIds("global", MaxGlobalDocs)
          /\ \A i \in 1..Len(global_rag) :
                Score(retrieved.query, global_rag[i]) > 0 =>
                   \/ global_rag[i] \in Range(retrieved.global)
                   \/ Len(retrieved.global) = retrieved.top_k

\* one more global insert than the cap, then a global search with a query
\* every document matches: the first-inserted document is gone, the latest
\* MaxGlobalDocs are returned
C11_Witness ==
    /\ Cardinality(InsertedIds("global")) = MaxGlobalDocs + 1
    /\ 1 \in InsertedIds("global")
    /\ retrieved.domain # "none"
    /\ retrieved.search_global
    /\ retrieved.query = {"icd"}
    /\ retrieved.top_k = MaxGlobalDocs
    /\ DocIds(retrieved.global) = LatestIds("global", MaxGlobalDocs)
    /\ 1 \notin DocIds(retrieved.global)

(***************************************************************************)
(* Properties of registry and manager together (SpecModels).               *)
(***************************************************************************)
\* C12: after any sequence of register, get and get_or_load operations,
\* sequential or concurrent, the number of resident models never exceeds
\* max_models.
C12_MaxModels == models_loaded(registry) <= max_models

\* max_models = 1: two callers have loaded two different models through
\* get_or_load, the second load evicted the first, one model is resident
C12_Witness ==
    /\ max_models = 1
    /\ \A t \in Callers : caller[t].pc = "finished" /\ caller[t].error = "none"
    /\ \A m \in ModelIds : loads[m] <= 1
    /\ \E t \in Callers : loads[caller[t].model_id] = 1
    /\ \E t, u \in Callers : caller[t].model_id # caller[u].model_id
    /\ evicted # NoModel
    /\ models_loaded(registry) = 1

\* C14: a model returned by get or get_or_load is never evicted while the
\* caller that obtained it is still generating with it: the registry still
\* holds the entry the caller was given.
C14_NoEvictionInUse ==
    \A t \in Callers :
        (caller[t].pc = "done" /\ caller[t].error = "none") =>
            /\ is_loaded(registry, caller[t].model_id)
            /\ registry[caller[t].model_id].handle = caller[t].got

(***************************************************************************)
(* Properties of get_or_load when the load may raise (SpecLoadFailure).    *)
(***************************************************************************)
\* the callers whose get_or_load of model id m ended in a load error
LoadErrors(m) ==
    {t \in Callers : caller[t].model_id = m /\ caller[t].error = "LoadError"}

\* C15: when the load inside get_or_load raises, the lock of that model id is
\* released (a lock is only ever held by a caller still inside get_or_load
\* for that id), the error goes to the callers whose load of that id failed
\* and to nobody else, they receive no model, and every registry entry comes
\* from a call that returned successfully.
C15_LoadFailure ==
    /\ \A m \in ModelIds :
          load_lock[m] # NoCaller =>
             /\ caller[load_lock[m]].pc \in {"check", "load", "register"}
             /\ caller[load_lock[m]].model_id = m
    /\ \A m \in ModelIds : Cardinality(LoadErrors(m)) <= loads[m]
    /\ \A t \in Callers :
          caller[t].error # "none" =>
             /\ caller[t].error = "LoadError"
             /\ caller[t].pc = "done"
             /\ caller[t].got = 0
    /\ \A m \in ModelIds :
          is_loaded(registry, m) =>
             \E t \in Callers :
                /\ caller[t].model_id = m
                /\ caller[t].error = "none"
                /\ caller[t].got = registry[m].handle

\* a load of model 1 failed for one caller; a later get_or_load of model 1 by
\* another caller made a fresh load and succeeded
C15_Witness ==
    \E t, u \in Callers :
        /\ caller[t].model_id = 1 /\ caller[t].error = "LoadError"
        /\ caller[u].model_id = 1 /\ caller[u].error = "none" /\ caller[u].pc = "done"
        /\ loads[1] = 2
        /\ is_loaded(registry, 1)
        /\ caller[u].got = registry[1].handle
        /\ load_lock[1] = NoCaller

(***************************************************************************)
(* Properties of concurrent requests (SpecConcurrent).                     *)
(***************************************************************************)
\* C13: when process_request calls run concurrently on one orchestrator, each
\* request keeps its own workflow state: no request fails because of the
\* other's reset or transitions, and each returns the full, strictly ordered
\* sequence of states as its state_history.
C13_RequestsIsolated ==
    \A r \in Requests :
        req[r].pc = "returned" =>
            /\ req[r].status = "success"
            /\ req[r].state_history = Tail(HappyPath)

(***************************************************************************)
(* Properties of correlation ids and result dicts (Spec).                  *)
(***************************************************************************)
\* C17: every process_request call generates one req_<timestamp> correlation
\* id; every message published on the bus while the call is handled carries
\* that id, and every result dict returned, whatever its status, has that id
\* in metadata.correlation_id.
C17_CorrelationId ==
    /\ n_requests > 0 => correlation_id = time_ms
    /\ \A i \in 1..Len(published) : published[i].correlation_id = correlation_id
    /\ result.outcome = "returned" =>
          /\ "correlation_id" \in result.keys
          /\ result.correlation_id = correlation_id

\* the second call has returned an error after publishing state changes, with
\* an id different from the first call's
C17_Witness ==
    /\ n_requests = 2
    /\ correlation_id = 2
    /\ result.outcome = "returned"
    /\ result.status = "error"
    /\ Len(published) >= 2
    /\ published[1].type = "STATE_CHANGE"

\* C18: every result dict returned by process_request, whatever its status
\* and path, has a message and metadata containing domain, confidence and
\* latency_ms.
C18_ResultFields ==
    result.outcome = "returned" =>
        /\ result.message # "none"
        /\ {"domain", "confidence", "latency_ms"} \subseteq result.keys

(***************************************************************************)
(* Properties of the workflow state machine (SpecStateMachine).            *)
(***************************************************************************)
\* the happy path, pair by pair
Successor ==
    {<<"INIT", "CLASSIFY">>, <<"CLASSIFY", "VALIDATE_PRE">>,
     <<"VALIDATE_PRE", "LOAD_SLM">>, <<"LOAD_SLM", "EXECUTE">>,
     <<"EXECUTE", "VALIDATE_POST">>, <<"VALIDATE_POST", "LOG">>,
     <<"LOG", "RETURN">>}

\* the state before position i of a history that started in INIT
Before(h, i) == IF i = 1 THEN "INIT" ELSE h[i - 1]

\* C16: a transition without force succeeds only from a state to its
\* immediate successor on the happy path, or from a non-terminal state to
\* ERROR; from RETURN and ERROR every non-forced transition fails; a failed
\* transition changes nothing; no happy-path state is skipped except by a
\* forced transition; and is_terminal_state holds exactly in RETURN and ERROR.
C16_TransitionLegality ==
    /\ (sm_call.from # "none" /\ ~sm_call.force) =>
          (sm_call.ok <=>
              /\ sm_call.from \notin {"RETURN", "ERROR"}
              /\ \/ sm_call.to = "ERROR"
                 \/ <<sm_call.from, sm_call.to>> \in Successor)
    /\ sm_call.from # "none" =>
          state_machine.state = IF sm_call.ok THEN sm_call.to ELSE sm_call.from
    /\ \A i \in 1..Len(state_machine.history) :
          \/ i \in sm_call.forced_at
          \/ <<Before(state_machine.history, i), state_machine.history[i]>> \in Successor
          \/ /\ state_machine.history[i] = "ERROR"
             /\ Before(state_machine.history, i) \notin {"RETURN", "ERROR"}
    /\ is_terminal_state(state_machine) <=> state_machine.state \in {"RETURN", "ERROR"}
    /\ state_machine.state \in {"RETURN", "ERROR"} <=>
          \A to \in WorkflowState : transition_raises(state_machine, to, FALSE)

\* the whole happy path was walked without force, and a further non-forced
\* transition out of RETURN was refused
C16_Witness ==
    /\ state_machine.history = Tail(HappyPath)
    /\ sm_call.forced_at = {}
    /\ sm_call.from = "RETURN"
    /\ ~sm_call.force
    /\ ~sm_call.ok

(***************************************************************************)
(* Properties of domain registration (SpecDomains).                        *)
(***************************************************************************)
\* C19: Orchestrator.register_domain is idempotent: a second call with an
\* already-registered name raises no error and leaves the set of registered
\* domains (and domains_registered) as after the first call.
C19_RegisterDomainIdempotent ==
    domain_call.name \in DOMAIN domain_call.before =>
        /\ domain_call.error = "none"
        /\ DOMAIN domains = DOMAIN domain_call.before

\* C20: register_domain with an id that is already registered fails with
\* DuplicateDomainError, raised to the caller, and leaves the registered
\* domain (its description) and its usage counter unchanged.
C20_DuplicateDomainError ==
    domain_call.name \in DOMAIN domain_call.before =>
        /\ domain_call.error = "DuplicateDomainError"
        /\ domains = domain_call.before

\* finance was registered, used, and then registered again with another
\* description: the call failed and the first registration stands
C20_Witness ==
    /\ domain_call.name = "finance"
    /\ "finance" \in DOMAIN domain_call.before
    /\ domain_call.before["finance"].description = "first"
    /\ domain_call.before["finance"].uses = 1
    /\ domain_call.error = "DuplicateDomainError"
    /\ domains["finance"] = domain_call.before["finance"]

(***************************************************************************)
(* Properties of the reasoning path (Spec).                                *)
(***************************************************************************)
\* C21: process_request calls the reasoner only when reasoning is enabled and
\* the complexity analyzer has flagged the query complex; in every other
\* case the request takes the single-domain path, the reasoner is not called
\* and requests_reasoning is unchanged.
C21_ReasonerOnlyWhenComplex ==
    /\ reasoner_calls > 0 => (enable_reasoning /\ complexity = "complex")
    /\ path = "reasoning" <=> complexity = "complex"
    /\ ~enable_reasoning => complexity = "none"
    /\ path = "simple" =>
          /\ reasoner_calls = 0
          /\ stats.requests_reasoning = stats0.requests_reasoning

\* reasoning is enabled; a first query was complex and went through the
\* reasoner, the second was analysed as simple and succeeded on the
\* single-domain path without a reasoner call
C21_Witness ==
    /\ enable_reasoning
    /\ n_requests = 2
    /\ stats0.requests_reasoning = 1
    /\ complexity = "simple"
    /\ pc = "idle"
    /\ result.status = "success"
    /\ reasoner_calls = 0

\* C22: when analyze_and_plan returns success=False the call returns at once
\* with status 'error' carrying the reasoner's error; no task is executed and
\* the reasoner is not called again for that request.
C22_ReasoningFailureIsFinal ==
    result.message = "reasoning_failed" =>
        /\ pc = "idle"
        /\ result.status = "error"
        /\ "reasoning_error" \in result.keys
        /\ executed = <<>>
        /\ task_results = <<>>
        /\ reasoner_calls = 1

\* a complex query whose planning failed
C22_Witness ==
    /\ result.message = "reasoning_failed"
    /\ complexity = "complex"
    /\ pc = "idle"

(***************************************************************************)
(* Properties of what a returned call leaves behind (Spec).                *)
(***************************************************************************)
\* the last call has returned a dict
HasReturned == pc = "idle" /\ result.outcome = "returned"

\* 1 if the returned status is st, else 0
Counted(st) == IF result.status = st THEN 1 ELSE 0

\* C24: every process_request call that returns increments requests_total by
\* exactly one, whichever path produced the result, and requests_success and
\* requests_failed grow by one exactly for a success and for an error result.
C24_TotalCountsEveryReturn ==
    HasReturned =>
        /\ stats.requests_total = stats0.requests_total + 1
        /\ stats.requests_success = stats0.requests_success + Counted("success")
        /\ stats.requests_failed = stats0.requests_failed + Counted("error")

\* C25: whenever process_request returns, the state machine is in the
\* terminal state that agrees with the result: RETURN for success and
\* escalated, ERROR for error.
C25_TerminalStateOnReturn ==
    HasReturned =>
        state_machine.state =
            IF result.status \in {"success", "escalated"} THEN "RETURN" ELSE "ERROR"

\* C26: the confidence threshold is applied to every classification: no task
\* is recorded as completed with a confidence below the threshold, and no
\* request is reported as success when a classification made for it was
\* below the threshold.
C26_ThresholdOnEveryClassification ==
    /\ \A i \in 1..Len(task_results) :
          task_results[i].status = "completed" =>
             task_results[i].confidence >= ConfThreshold
    /\ (HasReturned /\ result.status = "success") =>
          /\ conf # NoConf => conf >= ConfThreshold
          /\ \A i \in 1..Len(result.task_results) :
                result.task_results[i].confidence >= ConfThreshold

\* the states announced by the STATE_CHANGE messages among msgs, in order
RECURSIVE AnnouncedStates(_)
AnnouncedStates(msgs) ==
    IF msgs = <<>> THEN <<>>
    ELSE IF Head(msgs).type = "STATE_CHANGE"
         THEN <<Head(msgs).state>> \o AnnouncedStates(Tail(msgs))
         ELSE AnnouncedStates(Tail(msgs))

\* C27: after process_request returns, the STATE_CHANGE messages published
\* for the request announce, in order, exactly the states the state machine
\* entered during the request (a forced RETURN and ERROR included), and
\* exactly one RESPONSE message was published, after the last state change.
C27_BusMirrorsStateMachine ==
    HasReturned =>
        /\ AnnouncedStates(published) = state_machine.history
        /\ published # <<>>
        /\ published[Len(published)].type = "RESPONSE"
        /\ \A i \in 1..(Len(published) - 1) : published[i].type = "STATE_CHANGE"

\* C28: on a successful reasoning-path request metadata.task_results has one
\* entry per task of the plan, in plan order, each completed, so that its
\* length is num_tasks, also for plans in which two tasks carry the same id.
C28_OneResultPerTask ==
    (HasReturned /\ result.status = "success" /\ path = "reasoning") =>
        /\ Len(result.task_results) = Len(plan)
        /\ \A i \in 1..Len(result.task_results) :
              /\ result.task_results[i].task_id = plan[i].task_id
              /\ result.task_results[i].status = "completed"

\* C29: two process_request calls on one orchestrator never receive the same
\* correlation id, also when they start within the same millisecond.
C29_CorrelationIdsDistinct ==
    \A i, j \in 1..Len(issued) : i # j => issued[i] # issued[j]

(***************************************************************************)
(* Properties of the statistics in sequential use (SpecSequential).        *)
(***************************************************************************)
Counters == {"requests_total", "requests_success", "requests_failed",
             "requests_reasoning", "total_latency_ms"}

\* C30: after any sequence of process_request and reset_stats calls,
\* requests_success + requests_failed <= requests_total and
\* requests_reasoning <= requests_success; between resets no counter ever
\* decreases and total_latency_ms changes only when a request returns
\* success; reset_stats zeroes the five counters and keeps the registered
\* domains.
C30_StatsInvariants ==
    [][/\ stats'.requests_success + stats'.requests_failed <= stats'.requests_total
       /\ stats'.requests_reasoning <= stats'.requests_success
       /\ resets' = resets => \A k \in Counters : stats'[k] >= stats[k]
       /\ (resets' = resets /\ stats'.total_latency_ms # stats.total_latency_ms) =>
             (pc' = "idle" /\ result'.status = "success")
       /\ resets' # resets =>
             /\ \A k \in Counters : stats'[k] = 0
             /\ DOMAIN domains' = DOMAIN domains]_vars
====
